---- MODULE Spec2Model ----
(***************************************************************************)
(* A model of the bucket reclamation helpers and of the logging client     *)
(* proxy of s3tests_boto3/functional/__init__.py:                          *)
(*   list_versions, nuke_bucket, nuke_prefixed_buckets, get_buckets_list,  *)
(*   log_and_call and WrappedClient.                                       *)
(* The storage service behind the client is modelled at its interface:     *)
(* marker-based paging of object versions, batched deletes that report     *)
(* per-object errors, retention probes, bucket deletion, and calls that    *)
(* may fail.                                                               *)
(***************************************************************************)
EXTENDS Integers, Sequences, FiniteSets, TLC

\* ---------------------------------------------------------------- bounds
\* Object keys are 1..NumKeys; key 1 has two versions, every other key one.
NumKeys == 2
\* nuke_bucket's batch_size (128 in the source), scaled to the small buckets
NukeBatchSize == 2
\* list_versions is exercised on its own with batch sizes 1..MaxBatch.
MaxBatch == 2
\* A caller looks up at most MaxAccesses attributes of a wrapped client.
MaxAccesses == 2
\* At most MaxFaults storage calls fail in one run.
MaxFaults == 2
\* The clock advances by at most MaxTicks seconds while calls are in flight.
MaxTicks == 1
\* The service answers at most MaxShortPages listing requests with fewer
\* entries than a full page.
MaxShortPages == 2
\* get_new_bucket_name is called at most MaxNames times in one process, and
\* at most MaxCreated buckets are created under the names it returned.
MaxNames == 11
MaxCreated == 2
\* choose_bucket_prefix is given templates of at most MaxTemplate parts, and
\* limits 0..MaxLen next to the default and to those around the filler length.
MaxTemplate == 3
MaxLen == 3

\* The clock reads StartTime when a run begins.
StartTime == 1000

\* ------------------------------------------------------- program constants
\* the wait bound of nuke_bucket, in seconds
MaxWaitSeconds == 60
\* choose_bucket_prefix draws 255 random characters, and max_len defaults to 30.
FillerLength == 255
DefaultMaxLen == 30

\* Python's None, for markers and dates (all real markers and dates are > 0)
None == 0

VARIABLES
    \* the storage service
    clock,            \* current time, in seconds
    ticks,            \* seconds the clock advanced on its own so far
    shortLeft,        \* short pages the service may still serve
    srvBuckets,       \* the answer of list_buckets: bucket names, in listing order
    exists,           \* the bucket names that still exist
    contents,         \* bucket name -> set of the object-version references it holds
    deleteMarkers,    \* the references that are delete markers
    retainUntil,      \* reference -> retention date (None: not locked)
    deleteError,      \* reference -> the error code its delete is refused with ("": none)
    faults,           \* number of storage calls that failed so far
    calls,            \* history: the storage calls issued and the sleeps, in order
    \* list_versions (the generator's frame)
    kwargs, truncated,
    \* nuke_bucket (its frame)
    pc, bucket, batch_size, objects, errors, max_retain_date, now, result,
    \* nuke_prefixed_buckets (its frame)
    ppc, prefix, buckets, idx, err, raised, attempts, outcomes,
    \* a caller that enumerates a bucket with list_versions, twice
    enum, yielded, requests,
    \* WrappedClient and the allure trace
    wpc, item, args, attr, response, steps, invoked, accesses, returned,
    \* setup() and teardown(): the fixture that runs, its position, the
    \* identity at work, the buckets each identity owns, and the history of
    \* the nuke_prefixed_buckets calls started and ended
    fixture, fpc, ident, owned, started, ended,
    \* get_new_bucket_name: the next value of bucket_counter, and the names
    \* returned so far
    bucket_counter, names,
    \* choose_bucket_prefix (its frame): the arguments, the filler drawn and
    \* what is left of it, the position, and the string returned
    template, max_len, filler, rand, cpc, chosen

srvVars == <<clock, ticks, shortLeft, srvBuckets, exists, contents, deleteMarkers,
             retainUntil, deleteError, faults, calls>>
genVars == <<kwargs, truncated>>
nukeVars == <<pc, bucket, batch_size, objects, errors, max_retain_date, now, result>>
prefVars == <<ppc, prefix, buckets, idx, err, raised, attempts, outcomes>>
listVars == <<enum, yielded, requests>>
wrapVars == <<wpc, item, args, attr, response, steps, invoked, accesses, returned>>
chooseVars == <<template, max_len, filler, rand, cpc, chosen>>
fixVars == <<fixture, fpc, ident, owned, started, ended, bucket_counter, names,
             chooseVars>>
vars == <<srvVars, genVars, nukeVars, prefVars, listVars, wrapVars, fixVars>>

\* ---------------------------------------------------------------- values
Ref(k, v) == [Key |-> k, VersionId |-> v]
Refs == {Ref(k, v) : k \in 1..NumKeys, v \in {1, 2}} \ {Ref(k, 2) : k \in 2..NumKeys}

Min(a, b) == IF a <= b THEN a ELSE b

\* the service lists versions ordered by key, then by version id
RefLess(a, b) ==
    \/ a.Key < b.Key
    \/ a.Key = b.Key /\ a.VersionId < b.VersionId

RECURSIVE SortRefs(_)
SortRefs(S) ==
    IF S = {} THEN <<>>
    ELSE LET m == CHOOSE x \in S : \A y \in S \ {x} : RefLess(x, y)
         IN <<m>> \o SortRefs(S \ {m})

RECURSIVE Flatten(_)
Flatten(ss) == IF ss = <<>> THEN <<>> ELSE Head(ss) \o Flatten(Tail(ss))

Range(s) == {s[i] : i \in 1..Len(s)}

\* ---------------------------------------------------------- exceptions
\* An exception: its class, the storage call that raised it, the bucket the
\* call was about, and (for nuke_bucket's RuntimeError) the seconds it reports.
Exc(type, op, b, secs) == [type |-> type, op |-> op, bucket |-> b, seconds |-> secs]
NoError == Exc("None", "", <<>>, 0)
\* the classes a failing storage call raises: botocore's ClientError, or
\* anything else (a connection error, a timeout)
FaultTypes == {"ClientError", "OtherError"}

\* ------------------------------------------------- the storage service
\* ListObjectVersions: at most MaxKeys entries after the markers, split into
\* versions and delete markers; truncated when entries remain, and then the
\* next markers name the last entry served.
ListObjectVersions(held, kw) ==
    LET after == {r \in held :
                     \/ kw.KeyMarker = None
                     \/ RefLess(Ref(kw.KeyMarker, kw.VersionIdMarker), r)}
        sorted == SortRefs(after)
        n == Min(kw.MaxKeys, Len(sorted))
        page == SubSeq(sorted, 1, n)
        more == Len(sorted) > n
    IN [Versions |-> SelectSeq(page, LAMBDA r : r \notin deleteMarkers),
        DeleteMarkers |-> SelectSeq(page, LAMBDA r : r \in deleteMarkers),
        IsTruncated |-> more,
        NextKeyMarker |-> IF more THEN page[n].Key ELSE None,
        NextVersionIdMarker |-> IF more THEN page[n].VersionId ELSE None]

\* the entries a full page holds for this request
FullPage(held, kw) ==
    Min(kw.MaxKeys, Cardinality({r \in held :
                                    \/ kw.KeyMarker = None
                                    \/ RefLess(Ref(kw.KeyMarker, kw.VersionIdMarker), r)}))

\* ListObjectVersions answering with n entries, n at most a full page: the
\* service may serve fewer entries than MaxKeys allows, or none, and still
\* report the listing truncated. The next markers name the last entry served;
\* an empty truncated page gives back the markers of the request.
ListObjectVersionsPage(held, kw, n) ==
    LET after == {r \in held :
                     \/ kw.KeyMarker = None
                     \/ RefLess(Ref(kw.KeyMarker, kw.VersionIdMarker), r)}
        sorted == SortRefs(after)
        page == SubSeq(sorted, 1, n)
        more == Len(sorted) > n
    IN [Versions |-> SelectSeq(page, LAMBDA r : r \notin deleteMarkers),
        DeleteMarkers |-> SelectSeq(page, LAMBDA r : r \in deleteMarkers),
        IsTruncated |-> more,
        NextKeyMarker |-> IF ~more THEN None
                          ELSE IF n > 0 THEN page[n].Key ELSE kw.KeyMarker,
        NextVersionIdMarker |-> IF ~more THEN None
                                ELSE IF n > 0 THEN page[n].VersionId
                                ELSE kw.VersionIdMarker]

\* the sizes of the page the service may answer a request with
PageSizes(held, kw) ==
    IF shortLeft > 0 THEN 0..FullPage(held, kw) ELSE {FullPage(held, kw)}

\* an object version is locked while its retention date lies ahead
Locked(r) == retainUntil[r] # None /\ retainUntil[r] > clock

\* the error code a delete of r is refused with, "" when r is deleted
DeleteCode(r) ==
    IF deleteError[r] # "" THEN deleteError[r]
    ELSE IF Locked(r) THEN "AccessDenied" ELSE ""

\* DeleteObjects, quiet: the entries that can be deleted are, the response
\* lists an error for each of the others, in request order
DeleteObjects(objs) ==
    LET refused == SelectSeq(objs, LAMBDA r : DeleteCode(r) # "")
    IN [Errors |-> [i \in 1..Len(refused) |->
                       [Key |-> refused[i].Key, VersionId |-> refused[i].VersionId,
                        Code |-> DeleteCode(refused[i])]],
        Deleted |-> {r \in Range(objs) : DeleteCode(r) = ""}]

\* GetObjectRetention: the retention date, or a ClientError when the version
\* has no retention configured
GetObjectRetention(b, k, v) ==
    [ok |-> retainUntil[Ref(k, v)] # None,
     RetainUntilDate |-> retainUntil[Ref(k, v)],
     exc |-> IF retainUntil[Ref(k, v)] # None THEN NoError
             ELSE Exc("ClientError", "get_object_retention", b, 0)]

\* a record of the history: the call, its bucket, the pass of nuke_bucket
\* that issued it (0: none), its argument, and the exception it raised
\* (NoError when it returned) and, once Answered, the response it returned
Call(op, b, pass, arg, exc) ==
    [op |-> op, bucket |-> b, pass |-> pass, arg |-> arg, exc |-> exc,
     resp |-> <<>>]
Answered(call, resp) == [call EXCEPT !.resp = resp]

\* ------------------------------------------------------- list_versions
\* kwargs = {"Bucket": bucket, "MaxKeys": batch_size}: no markers yet
NewKwargs(b, size) ==
    [Bucket |-> b, MaxKeys |-> size, KeyMarker |-> None, VersionIdMarker |-> None]

\* a variant that never moves the cursor
NextKwargsStale(kw, listing) == kw

\* a variant that only takes over the key marker
NextKwargsKeyOnly(kw, listing) == [kw EXCEPT !.KeyMarker = listing.NextKeyMarker]

\* kwargs["KeyMarker"] = ...; kwargs["VersionIdMarker"] = ...
NextKwargs(kw, listing) ==
    [kw EXCEPT !.KeyMarker = listing.NextKeyMarker,
               !.VersionIdMarker = listing.NextVersionIdMarker]

\* a variant that yields every page, empty or not
YieldsAlways(listing) == TRUE

\* a variant that forgets the delete markers of a page
ListingObjsVersionsOnly(listing) == listing.Versions

\* objs = listing.get("Versions", []) + listing.get("DeleteMarkers", [])
ListingObjs(listing) == listing.Versions \o listing.DeleteMarkers

\* if len(objs): yield [...]
Yields(listing) == Len(ListingObjs(listing)) > 0

\* a variant whose pagination state outlives the call: a later enumeration
\* goes on with the kwargs and the truncated flag the earlier one left behind
ListVersionsStartStale(b, size) ==
    IF enum <= 1
    THEN [kwargs |-> NewKwargs(b, size), truncated |-> TRUE]
    ELSE [kwargs |-> [kwargs EXCEPT !.Bucket = b, !.MaxKeys = size],
          truncated |-> truncated]

\* a call of list_versions: a new generator with its own kwargs and truncated
ListVersionsStart(b, size) == [kwargs |-> NewKwargs(b, size), truncated |-> TRUE]

\* ------------------------------------------------------ bucket names
BucketA == <<"t", "a">>
BucketB == <<"x", "t">>
BucketC == <<"z">>
BucketD == <<"t", "b">>

\* ------------------------------------------------------- idle frames
NoKwargs == NewKwargs(<<>>, 0)

GenIdle == kwargs = NoKwargs /\ truncated = FALSE

NukeIdle ==
    /\ pc = "idle" /\ bucket = <<>> /\ batch_size = 0 /\ objects = <<>>
    /\ errors = <<>> /\ max_retain_date = None /\ now = None /\ result = NoError

PrefIdle ==
    /\ ppc = "idle" /\ prefix = <<>> /\ buckets = <<>> /\ idx = 0
    /\ err = NoError /\ raised = NoError /\ attempts = <<>> /\ outcomes = <<>>

ListIdle == enum = 0 /\ yielded = <<>> /\ requests = <<>>

\* no attribute looked up yet, no response yet
NoAttr == [kind |-> "none", of |-> ""]
NoResponse == [kind |-> "none", value |-> ""]

WrapIdle ==
    /\ wpc = "idle" /\ item = "" /\ args = 0 /\ attr = NoAttr
    /\ response = NoResponse
    /\ steps = <<>> /\ invoked = <<>> /\ accesses = <<>> /\ returned = <<>>

ChooseIdle ==
    /\ template = <<>> /\ max_len = 0 /\ filler = <<>> /\ rand = <<>>
    /\ cpc = "idle" /\ chosen = <<>>

FixIdle ==
    /\ ChooseIdle
    /\ fixture = "" /\ fpc = "idle" /\ ident = 0 /\ owned = <<>>
    /\ started = <<>> /\ ended = <<>>
    /\ bucket_counter = 1 /\ names = <<>>

\* a service nothing is locked in, whose clock stands still
QuietService ==
    /\ clock = StartTime /\ ticks = 0 /\ shortLeft = 0 /\ faults = 0 /\ calls = <<>>
    /\ retainUntil = [r \in Refs |-> None]
    /\ deleteError = [r \in Refs |-> ""]

\* --------------------------------------------- enumerating a bucket, twice
\* A caller runs list(list_versions(client, bucket, n)) two times on a bucket
\* nobody changes.
InitList ==
    /\ QuietService
    /\ srvBuckets = <<BucketA>> /\ exists = {BucketA}
    /\ \E held \in SUBSET Refs : contents = [b \in {BucketA} |-> held]
    /\ deleteMarkers \in SUBSET contents[BucketA]
    /\ \E n \in 1..MaxBatch : batch_size = n
    /\ pc = "idle" /\ bucket = BucketA /\ objects = <<>> /\ errors = <<>>
    /\ max_retain_date = None /\ now = None /\ result = NoError
    /\ GenIdle /\ PrefIdle /\ WrapIdle /\ FixIdle
    /\ enum = 1 /\ yielded = <<<<>>, <<>>>> /\ requests = <<<<>>, <<>>>>

\* list_versions(client, bucket, batch_size) is called: lines 97-98
EnumStart ==
    /\ pc = "idle" /\ enum \in 1..2
    /\ kwargs' = ListVersionsStart(bucket, batch_size).kwargs
    /\ truncated' = ListVersionsStart(bucket, batch_size).truncated
    /\ pc' = "enum"
    /\ UNCHANGED <<srvVars, bucket, batch_size, objects, errors, max_retain_date,
                   now, result, prefVars, listVars, wrapVars, fixVars>>

\* One turn of the generator's loop, lines 99-108: request a page with the
\* current kwargs, take over the markers and the truncated flag, and yield the
\* page's entries when there are any. The caller appends what is yielded.
EnumPage ==
    /\ pc = "enum" /\ truncated
    /\ LET listing == ListObjectVersions(contents[kwargs.Bucket], kwargs)
       IN /\ calls' = Append(calls, [op |-> "list_object_versions",
                                     bucket |-> kwargs.Bucket, kwargs |-> kwargs])
          /\ kwargs' = NextKwargs(kwargs, listing)
          /\ truncated' = listing.IsTruncated
          /\ yielded' = IF Yields(listing)
                        THEN [yielded EXCEPT ![enum] = Append(@, ListingObjs(listing))]
                        ELSE yielded
          /\ requests' = [requests EXCEPT ![enum] = Append(@, kwargs)]
    /\ UNCHANGED <<clock, ticks, shortLeft, srvBuckets, exists, contents, deleteMarkers,
                   retainUntil, deleteError, faults, nukeVars, prefVars, enum,
                   wrapVars, fixVars>>

\* The loop condition is false: the generator is exhausted, the caller has
\* its list and goes on to the next enumeration.
EnumEnd ==
    /\ pc = "enum" /\ ~truncated
    /\ pc' = "idle"
    /\ enum' = enum + 1
    /\ UNCHANGED <<srvVars, genVars, bucket, batch_size, objects, errors,
                   max_retain_date, now, result, prefVars, yielded, requests,
                   wrapVars, fixVars>>

NextList == EnumStart \/ EnumPage \/ EnumEnd

SpecList == InitList /\ [][NextList]_vars

\* ------------------------------------------------------------ nuke_bucket
\* a variant that keeps the date of the last probe
MaxRetainLatest(cur, retain_date) == retain_date

\* if not max_retain_date or max_retain_date < retain_date: (lines 133-134)
MaxRetain(cur, retain_date) ==
    IF cur = None \/ cur < retain_date THEN retain_date ELSE cur

\* a variant that also waits for a lock that ends this very second
StillLockedOrDue(max, t) == max >= t

\* if max_retain_date > now: (line 141)
StillLocked(max, t) == max > t

\* variants of the bound test: one second too lax, and one that already
\* refuses a lock of exactly the bound
ExceedsWaitBoundLax(delta) == delta > MaxWaitSeconds + 1
ExceedsWaitBoundStrict(delta) == delta >= MaxWaitSeconds

\* if delta.total_seconds() > 60: (line 143)
ExceedsWaitBound(delta) == delta > MaxWaitSeconds

\* time.sleep(delta.total_seconds()) (line 151)
SleepSeconds(delta) == delta

\* a variant without the except clause
SwallowedNone(type) == FALSE

\* except ClientError: pass (lines 135-136): only a ClientError is swallowed
Swallowed(type) == type = "ClientError"

\* the pass of nuke_bucket a control point belongs to
PassOf(p) == IF p \in {"list1", "delete1", "probe", "check"} THEN 1 ELSE 2

\* a variant that never leaves the loop over the errors
AfterErrorStay(errs) == "probe"

\* where pass 1 goes on after an error of a delete response has been handled:
\* the next error, else the next page, else the end of the loop of line 117
AfterError(errs) ==
    IF errs # <<>> THEN "probe" ELSE IF truncated THEN "list1" ELSE "check"

\* a variant that does not let the exception out and issues the call again
RetryInstead(e) == UNCHANGED <<pc, result>>

\* a variant whose second loop keeps the errors like the first one
KeptErrorsBothPasses(p, errs) == errs

\* the errors of a delete response nuke_bucket goes through: those of the
\* first loop (line 125); the second loop drops the response (lines 154-158)
KeptErrors(p, errs) == IF p = "delete1" THEN errs ELSE <<>>

\* a variant that checks the retention again when the second loop is over
AfterDeleteRecheck(p, kept) ==
    IF kept # <<>> THEN "probe"
    ELSE IF p = "delete1" THEN (IF truncated THEN "list1" ELSE "check")
    ELSE (IF truncated THEN "list2" ELSE "check")

\* where nuke_bucket goes on after a delete_objects call: through the errors
\* it kept, else to the next page of the same loop, else past the loop: to
\* the retention check after the first (line 138), to delete_bucket after
\* the second (line 160)
AfterDelete(p, kept) ==
    IF kept # <<>> THEN "probe"
    ELSE IF p = "delete1" THEN (IF truncated THEN "list1" ELSE "check")
    ELSE (IF truncated THEN "list2" ELSE "delete_bucket")

\* a variant that runs the second loop whether a date was found or not
HoldFoundAlways(max) == TRUE

\* if max_retain_date: (line 138)
HoldFound(max) == max # None

\* raise e out of nuke_bucket
Raise(e) == pc' = "raised" /\ result' = e

\* nuke_bucket(client, b) is entered: lines 113-117, and the generator of
\* line 117 starts with its own kwargs
NukeEnter(b) ==
    /\ bucket' = b
    /\ batch_size' = NukeBatchSize
    /\ max_retain_date' = None
    /\ objects' = <<>> /\ errors' = <<>> /\ now' = None /\ result' = NoError
    /\ kwargs' = ListVersionsStart(b, NukeBatchSize).kwargs
    /\ truncated' = ListVersionsStart(b, NukeBatchSize).truncated
    /\ pc' = "list1"

\* a caller invokes nuke_bucket on the one bucket, directly
NukeCall ==
    /\ ppc = "direct" /\ pc = "idle"
    /\ NukeEnter(srvBuckets[1])
    /\ ppc' = "called"
    /\ UNCHANGED <<srvVars, prefix, buckets, idx, err, raised, attempts, outcomes,
                   listVars, wrapVars, fixVars>>

\* One turn of list_versions' loop inside nuke_bucket (lines 99-108, driven by
\* the for loops of lines 117 and 153): a failing request raises out of
\* nuke_bucket; a page with entries is yielded to the loop body; the
\* exhausted generator ends the loop. The service answers with a full page,
\* or with a shorter one while it has short pages left.
NukeList ==
    /\ pc \in {"list1", "list2"} /\ truncated
    /\ \/ \E t \in FaultTypes :
            /\ faults < MaxFaults
            /\ faults' = faults + 1
            /\ calls' = Append(calls, Call("list_object_versions", bucket, PassOf(pc),
                                 kwargs, Exc(t, "list_object_versions", bucket, 0)))
            /\ Raise(Exc(t, "list_object_versions", bucket, 0))
            /\ UNCHANGED <<shortLeft, kwargs, truncated, objects>>
       \/ \E n \in PageSizes(contents[kwargs.Bucket], kwargs) :
          LET listing == ListObjectVersionsPage(contents[kwargs.Bucket], kwargs, n)
          IN /\ calls' = Append(calls, Answered(Call("list_object_versions", bucket,
                                             PassOf(pc), kwargs, NoError), listing))
             /\ shortLeft' = IF n < FullPage(contents[kwargs.Bucket], kwargs)
                             THEN shortLeft - 1 ELSE shortLeft
             /\ kwargs' = NextKwargs(kwargs, listing)
             /\ truncated' = listing.IsTruncated
             /\ objects' = IF Yields(listing) THEN ListingObjs(listing) ELSE objects
             /\ pc' = IF Yields(listing)
                      THEN (IF pc = "list1" THEN "delete1" ELSE "delete2")
                      ELSE IF listing.IsTruncated THEN pc
                      ELSE IF pc = "list1" THEN "check" ELSE "delete_bucket"
             /\ UNCHANGED <<faults, result>>
    /\ UNCHANGED <<clock, ticks, srvBuckets, exists, contents, deleteMarkers,
                   retainUntil, deleteError, bucket, batch_size, errors,
                   max_retain_date, now, prefVars, listVars, wrapVars, fixVars>>

\* The loop body's delete_objects call, lines 118-122 and 154-158. Pass 1
\* keeps the response's errors to inspect them; pass 2 drops the response.
NukeDelete ==
    /\ pc \in {"delete1", "delete2"}
    /\ \/ \E t \in FaultTypes :
            /\ faults < MaxFaults
            /\ faults' = faults + 1
            /\ calls' = Append(calls, Call("delete_objects", bucket, PassOf(pc),
                                 objects, Exc(t, "delete_objects", bucket, 0)))
            /\ Raise(Exc(t, "delete_objects", bucket, 0))
            /\ UNCHANGED <<contents, errors>>
       \/ LET delete == DeleteObjects(objects)
          IN /\ calls' = Append(calls, Answered(Call("delete_objects", bucket,
                                             PassOf(pc), objects, NoError), delete))
             /\ contents' = [contents EXCEPT ![bucket] = @ \ delete.Deleted]
             /\ errors' = KeptErrors(pc, delete.Errors)
             /\ pc' = AfterDelete(pc, KeptErrors(pc, delete.Errors))
             /\ UNCHANGED <<faults, result>>
    /\ UNCHANGED <<clock, ticks, shortLeft, srvBuckets, exists, deleteMarkers,
                   retainUntil, deleteError, genVars, bucket, batch_size, objects,
                   max_retain_date, now, prefVars, listVars, wrapVars, fixVars>>

\* One turn of the loop over delete.get("Errors", []), lines 125-136: an error
\* with another code is skipped; for AccessDenied the version's retention is
\* fetched and the maximum kept; a ClientError of the probe is swallowed, any
\* other exception leaves nuke_bucket.
NukeProbe ==
    /\ pc = "probe" /\ errors # <<>>
    /\ LET e == Head(errors)
           probe == Call("get_object_retention", bucket, 1,
                         Ref(e.Key, e.VersionId), NoError)
       IN IF e.Code # "AccessDenied"
          THEN /\ errors' = Tail(errors)
               /\ pc' = AfterError(Tail(errors))
               /\ UNCHANGED <<faults, calls, max_retain_date, result>>
          ELSE \/ \E t \in FaultTypes :
                    /\ faults < MaxFaults
                    /\ faults' = faults + 1
                    /\ calls' = Append(calls, [probe EXCEPT
                                   !.exc = Exc(t, "get_object_retention", bucket, 0)])
                    /\ IF Swallowed(t)
                       THEN /\ errors' = Tail(errors)
                            /\ pc' = AfterError(Tail(errors))
                            /\ UNCHANGED result
                       ELSE /\ Raise(Exc(t, "get_object_retention", bucket, 0))
                            /\ UNCHANGED errors
                    /\ UNCHANGED max_retain_date
               \/ LET res == GetObjectRetention(bucket, e.Key, e.VersionId)
                  IN /\ calls' = Append(calls,
                                   IF res.ok THEN Answered(probe, res.RetainUntilDate)
                                   ELSE [probe EXCEPT !.exc = res.exc])
                     /\ max_retain_date' =
                           IF res.ok
                           THEN MaxRetain(max_retain_date, res.RetainUntilDate)
                           ELSE max_retain_date
                     /\ errors' = Tail(errors)
                     /\ pc' = AfterError(Tail(errors))
                     /\ UNCHANGED <<faults, result>>
    /\ UNCHANGED <<clock, ticks, shortLeft, srvBuckets, exists, contents, deleteMarkers,
                   retainUntil, deleteError, genVars, bucket, batch_size, objects,
                   now, prefVars, listVars, wrapVars, fixVars>>

\* After pass 1, lines 138-153: without a retention date go on to
\* delete_bucket; with one, read the clock, raise when the lock outlasts the
\* bound, sleep when it still holds, and start the second enumeration.
NukeCheck ==
    /\ pc = "check"
    /\ IF ~HoldFound(max_retain_date)
       THEN /\ pc' = "delete_bucket"
            /\ UNCHANGED <<clock, calls, now, result, genVars>>
       ELSE LET delta == max_retain_date - clock
            IN /\ now' = clock
               /\ IF StillLocked(max_retain_date, clock) /\ ExceedsWaitBound(delta)
                  THEN /\ Raise(Exc("RuntimeError", "nuke_bucket", bucket, delta))
                       /\ UNCHANGED <<clock, calls, genVars>>
                  ELSE /\ IF StillLocked(max_retain_date, clock)
                          THEN /\ clock' = clock + SleepSeconds(delta)
                               /\ calls' = Append(calls, Call("sleep", bucket, 1,
                                                              SleepSeconds(delta), NoError))
                          ELSE UNCHANGED <<clock, calls>>
                       /\ kwargs' = ListVersionsStart(bucket, batch_size).kwargs
                       /\ truncated' = ListVersionsStart(bucket, batch_size).truncated
                       /\ pc' = "list2"
                       /\ UNCHANGED result
    /\ UNCHANGED <<ticks, shortLeft, srvBuckets, exists, contents, deleteMarkers,
                   retainUntil, deleteError, faults, bucket, batch_size, objects,
                   errors, max_retain_date, prefVars, listVars, wrapVars, fixVars>>

\* client.delete_bucket(Bucket=bucket), line 160: the service refuses to
\* delete a bucket that still holds versions.
NukeDeleteBucket ==
    /\ pc = "delete_bucket"
    /\ \/ \E t \in FaultTypes :
            /\ faults < MaxFaults
            /\ faults' = faults + 1
            /\ calls' = Append(calls, Call("delete_bucket", bucket, 0, bucket,
                                            Exc(t, "delete_bucket", bucket, 0)))
            /\ Raise(Exc(t, "delete_bucket", bucket, 0))
            /\ UNCHANGED exists
       \/ IF contents[bucket] = {}
          THEN /\ calls' = Append(calls, Call("delete_bucket", bucket, 0, bucket,
                                               NoError))
               /\ exists' = exists \ {bucket}
               /\ pc' = "returned"
               /\ UNCHANGED <<faults, result>>
          ELSE /\ calls' = Append(calls, Call("delete_bucket", bucket, 0, bucket,
                                    Exc("ClientError", "delete_bucket", bucket, 0)))
               /\ Raise(Exc("ClientError", "delete_bucket", bucket, 0))
               /\ UNCHANGED <<faults, exists>>
    /\ UNCHANGED <<clock, ticks, shortLeft, srvBuckets, contents, deleteMarkers,
                   retainUntil, deleteError, genVars, bucket, batch_size, objects,
                   errors, max_retain_date, now, prefVars, listVars, wrapVars,
                   fixVars>>

\* a second passes while nuke_bucket is between two steps
Tick ==
    /\ pc \in {"list1", "delete1", "probe", "check", "list2", "delete2",
               "delete_bucket"}
    /\ ticks < MaxTicks
    /\ ticks' = ticks + 1
    /\ clock' = clock + 1
    /\ UNCHANGED <<shortLeft, srvBuckets, exists, contents, deleteMarkers,
                   retainUntil, deleteError, faults, calls, genVars, nukeVars,
                   prefVars, listVars, wrapVars, fixVars>>

\* the retention dates versions are locked until, relative to StartTime
RetainOffsets == {1, MaxWaitSeconds, MaxWaitSeconds + 1}

\* nuke_bucket on one bucket: any set of versions, at most two of them locked,
\* at most one refused for another reason
InitNuke ==
    /\ clock = StartTime /\ ticks = 0 /\ shortLeft = 0 /\ faults = 0 /\ calls = <<>>
    /\ srvBuckets = <<BucketA>> /\ exists = {BucketA}
    /\ \E held \in SUBSET Refs : contents = [b \in {BucketA} |-> held]
    /\ deleteMarkers \in {{}, {Ref(1, 2)} \cap contents[BucketA]}
    /\ retainUntil \in [Refs -> {None} \cup {StartTime + o : o \in RetainOffsets}]
    /\ {r \in Refs : retainUntil[r] # None} \subseteq contents[BucketA]
    /\ Cardinality({r \in Refs : retainUntil[r] # None}) <= 2
    /\ deleteError \in [Refs -> {"", "InternalError", "AccessDenied"}]
    /\ \A r \in Refs : deleteError[r] # "" => r \in contents[BucketA] /\ r.Key = 1
    /\ Cardinality({r \in Refs : deleteError[r] # ""}) <= 1
    /\ GenIdle /\ NukeIdle /\ ListIdle /\ WrapIdle /\ FixIdle
    /\ ppc = "direct" /\ prefix = <<>> /\ buckets = <<>> /\ idx = 0
    /\ err = NoError /\ raised = NoError /\ attempts = <<>> /\ outcomes = <<>>

\* nuke_bucket on one bucket whose listing the service may answer in short
\* pages, MaxShortPages of them: any set of versions, the first of them
\* possibly locked for a second
InitShort ==
    /\ clock = StartTime /\ ticks = 0 /\ shortLeft = MaxShortPages
    /\ faults = 0 /\ calls = <<>>
    /\ srvBuckets = <<BucketA>> /\ exists = {BucketA}
    /\ \E held \in SUBSET Refs : contents = [b \in {BucketA} |-> held]
    /\ deleteMarkers \in {{}, {Ref(1, 2)} \cap contents[BucketA]}
    /\ \E d \in {None, StartTime + 1} :
          retainUntil = [r \in Refs |-> IF r = Ref(1, 1) THEN d ELSE None]
    /\ retainUntil[Ref(1, 1)] # None => Ref(1, 1) \in contents[BucketA]
    /\ deleteError = [r \in Refs |-> ""]
    /\ GenIdle /\ NukeIdle /\ ListIdle /\ WrapIdle /\ FixIdle
    /\ ppc = "direct" /\ prefix = <<>> /\ buckets = <<>> /\ idx = 0
    /\ err = NoError /\ raised = NoError /\ attempts = <<>> /\ outcomes = <<>>

NextNuke ==
    \/ NukeCall \/ NukeList \/ NukeDelete \/ NukeProbe \/ NukeCheck
    \/ NukeDeleteBucket \/ Tick

SpecNuke == InitNuke /\ [][NextNuke]_vars

SpecShort == InitShort /\ [][NextNuke]_vars

\* --------------------------------- get_buckets_list, nuke_prefixed_buckets
\* a variant that only accepts the prefix at the start of the name
StartsWith(p, name) == Len(p) <= Len(name) /\ SubSeq(name, 1, Len(p)) = p

\* prefix in bucket["Name"] (line 68): Python's substring test
Contains(p, name) ==
    \E i \in 0..(Len(name) - Len(p)) : SubSeq(name, i + 1, i + Len(p)) = p

\* get_buckets_list, lines 65-71: the names of the listing that contain the
\* prefix, in listing order
GetBucketsList(listing, p) == SelectSeq(listing, LAMBDA name : Contains(p, name))

\* a variant that keeps the first exception instead of the last
CaughtFirst(old, e) == IF old = NoError THEN e ELSE old

\* except Exception as e: err = e (lines 174-179)
Caught(old, e) == e

\* a variant that gives up at the first bucket that fails
NextIndexOrStop(i, failed) == IF failed THEN Len(buckets) + 1 ELSE i + 1

\* the for loop of line 171 goes on to the next bucket, failed or not
NextIndex(i, failed) == i + 1

\* nuke_prefixed_buckets(prefix, client) is called: get_buckets_list asks the
\* service for the buckets (lines 64-65) and filters them (lines 66-71); a
\* failing list_buckets raises out of nuke_prefixed_buckets.
PrefStart ==
    /\ ppc = "start"
    /\ \/ \E t \in FaultTypes :
            /\ faults < MaxFaults
            /\ faults' = faults + 1
            /\ calls' = Append(calls, Call("list_buckets", <<>>, 0, <<>>,
                                            Exc(t, "list_buckets", <<>>, 0)))
            /\ ppc' = "raised"
            /\ raised' = Exc(t, "list_buckets", <<>>, 0)
            /\ UNCHANGED <<buckets, idx>>
       \/ /\ calls' = Append(calls, Call("list_buckets", <<>>, 0, <<>>, NoError))
          /\ buckets' = GetBucketsList(srvBuckets, prefix)
          /\ idx' = 1
          /\ ppc' = "loop"
          /\ UNCHANGED <<faults, raised>>
    /\ UNCHANGED <<clock, ticks, shortLeft, srvBuckets, exists, contents, deleteMarkers,
                   retainUntil, deleteError, genVars, nukeVars, prefix, err,
                   attempts, outcomes, listVars, wrapVars, fixVars>>

\* the loop of line 171 calls nuke_bucket on the next bucket (line 173)
PrefCall ==
    /\ ppc = "loop" /\ idx <= Len(buckets)
    /\ NukeEnter(buckets[idx])
    /\ attempts' = Append(attempts, buckets[idx])
    /\ ppc' = "in_nuke"
    /\ UNCHANGED <<srvVars, prefix, buckets, idx, err, raised, outcomes,
                   listVars, wrapVars, fixVars>>

\* nuke_bucket is over: an exception is caught and kept in err (lines
\* 174-180), and the loop goes on
PrefNext ==
    /\ ppc = "in_nuke" /\ pc \in {"returned", "raised"}
    /\ err' = IF pc = "raised" THEN Caught(err, result) ELSE err
    /\ outcomes' = Append(outcomes, [bucket |-> bucket,
                                     exc |-> IF pc = "raised" THEN result ELSE NoError])
    /\ idx' = NextIndex(idx, pc = "raised")
    /\ pc' = "idle"
    /\ ppc' = "loop"
    /\ UNCHANGED <<srvVars, genVars, bucket, batch_size, objects, errors,
                   max_retain_date, now, result, prefix, buckets, raised, attempts,
                   listVars, wrapVars, fixVars>>

\* after the loop: if err: raise err (lines 181-182)
PrefEnd ==
    /\ ppc = "loop" /\ idx > Len(buckets)
    /\ IF err # NoError
       THEN ppc' = "raised" /\ raised' = err
       ELSE ppc' = "returned" /\ UNCHANGED raised
    /\ UNCHANGED <<srvVars, genVars, nukeVars, prefix, buckets, idx, err, attempts,
                   outcomes, listVars, wrapVars, fixVars>>

\* what list_buckets answers in the runs explored
Listings == {<<BucketA, BucketB, BucketD>>, <<BucketB, BucketC, BucketA>>,
             <<BucketC, BucketD>>, <<BucketC>>}

\* nuke_prefixed_buckets over a few buckets, which are empty or hold one
\* version that may be locked
InitPrefixed ==
    /\ clock = StartTime /\ ticks = 0 /\ shortLeft = 0 /\ faults = 0 /\ calls = <<>>
    /\ srvBuckets \in Listings
    /\ exists = Range(srvBuckets)
    /\ contents \in [Range(srvBuckets) -> {{}, {Ref(1, 1)}}]
    /\ deleteMarkers = {}
    /\ \E d \in {None, StartTime + 1, StartTime + MaxWaitSeconds + 1} :
          retainUntil = [r \in Refs |-> IF r = Ref(1, 1) THEN d ELSE None]
    /\ deleteError = [r \in Refs |-> ""]
    /\ GenIdle /\ NukeIdle /\ ListIdle /\ WrapIdle /\ FixIdle
    /\ ppc = "start" /\ prefix \in {<<"t">>, <<"t", "a">>}
    /\ buckets = <<>> /\ idx = 0
    /\ err = NoError /\ raised = NoError /\ attempts = <<>> /\ outcomes = <<>>

NextPrefixed ==
    \/ PrefStart \/ PrefCall \/ PrefNext \/ PrefEnd
    \/ NukeList \/ NukeDelete \/ NukeProbe \/ NukeCheck \/ NukeDeleteBucket \/ Tick

SpecPrefixed == InitPrefixed /\ [][NextPrefixed]_vars

\* ------------------------------------------- WrappedClient, log_and_call
\* the wrapped client: the method names of its _PY_TO_OP_NAME, a helper
\* method that is no operation, and two data attributes
OpNames == {"list_buckets", "delete_objects"}
ClientMethods == OpNames \cup {"can_paginate"}
ClientData == {"meta", "_PY_TO_OP_NAME"}
\* the attribute WrappedClient.__init__ sets on the proxy itself (line 940)
ProxyOwn == {"client"}
\* the names a caller asks for; "no_such" is an attribute of neither object
Names == ClientMethods \cup ClientData \cup ProxyOwn \cup {"no_such"}

\* getattr(client, name) on the wrapped client
ClientGetattr(name) ==
    IF name \in ClientMethods THEN [kind |-> "method", of |-> name]
    ELSE IF name \in ClientData THEN [kind |-> "data", of |-> name]
    ELSE [kind |-> "AttributeError", of |-> name]

\* a variant that wraps every method it finds, operation or not
ProxyGetattrWrapAll(name) ==
    IF name \in ProxyOwn THEN [kind |-> "wrapped_client", of |-> name]
    ELSE IF ClientGetattr(name).kind = "method" THEN [kind |-> "wrapper", of |-> name]
    ELSE ClientGetattr(name)

\* Attribute access on a WrappedClient, lines 938-946. __getattr__ only runs
\* for names the normal lookup does not find: "client" is the proxy's own
\* attribute and yields the wrapped client object. In __getattr__ the
\* getattr of line 943 comes first and raises AttributeError for a missing
\* name; an operation name yields log_and_call's wrapper, any other name the
\* original attribute.
ProxyGetattr(name) ==
    IF name \in ProxyOwn THEN [kind |-> "wrapped_client", of |-> name]
    ELSE LET original_method == ClientGetattr(name)
         IN IF original_method.kind = "AttributeError" THEN original_method
            ELSE IF name \in OpNames THEN [kind |-> "wrapper", of |-> name]
            ELSE original_method

\* str(x), the text allure.attach is given
Str(x) == [str |-> x]

\* original_method(*args, **kwargs): the wrapper hands on what it was given
WrapperArgs(a) == a

\* a variant without the return statement: the caller gets None
WrapperReturnNothing(resp) == NoResponse

\* return response (line 934)
WrapperReturn(resp) == resp

\* the two attachments of lines 930-933
Attachments(a, resp) == <<Str([args |-> a]), Str(resp.value)>>

\* a variant that attaches the arguments before it calls the method
OpenStepArgsFirst(name, a, o) ==
    [title |-> name, attachments |-> <<Str([args |-> a])>>,
     status |-> IF o.kind = "raise" THEN "failed" ELSE "open"]

\* with allure.step(...): response = original_method(...) (lines 928-929):
\* the step is opened with nothing attached and the method is called inside
\* it; an exception closes the step as failed before line 930 is reached
OpenStep(name, a, o) ==
    [title |-> name, attachments |-> <<>>,
     status |-> IF o.kind = "raise" THEN "failed" ELSE "open"]

\* what a call is given, and what the wrapped client's method answers
ArgValues == {1, 2}
Outcomes == {[kind |-> "return", value |-> "resp_a"],
             [kind |-> "return", value |-> "resp_b"],
             [kind |-> "raise", value |-> "ClientError"]}

InitWrap ==
    /\ QuietService
    /\ srvBuckets = <<BucketA>> /\ exists = {BucketA}
    /\ contents = [b \in {BucketA} |-> {}]
    /\ deleteMarkers = {}
    /\ GenIdle /\ NukeIdle /\ PrefIdle /\ ListIdle /\ WrapIdle /\ FixIdle

\* wrapped.<name>: the caller looks an attribute up on the proxy
WGet ==
    /\ wpc = "idle" /\ Len(accesses) < MaxAccesses
    /\ \E name \in Names :
          /\ item' = name
          /\ attr' = ProxyGetattr(name)
          /\ accesses' = Append(accesses, [item |-> name, got |-> ProxyGetattr(name),
                                           direct |-> ClientGetattr(name),
                                           steps |-> Len(steps)])
          /\ wpc' = IF ProxyGetattr(name).kind \in {"wrapper", "method"}
                    THEN "got" ELSE "idle"
    /\ UNCHANGED <<srvVars, genVars, nukeVars, prefVars, listVars, fixVars,
                   args, response,
                   steps, invoked, returned>>

\* The caller calls what it got. A method that was passed through is the
\* client's own: it runs and nothing is logged. The wrapper opens the step
\* "Request <name>" and calls the original method (lines 928-929); when that
\* raises, the step is closed as failed and the exception leaves the wrapper.
WInvoke ==
    /\ wpc = "got"
    /\ \E a \in ArgValues, o \in Outcomes :
          /\ args' = a
          /\ invoked' = Append(invoked, [name |-> attr.of, args |-> WrapperArgs(a),
                                         outcome |-> o])
          /\ response' = o
          /\ IF attr.kind = "wrapper"
             THEN /\ steps' = Append(steps, OpenStep(attr.of, a, o))
                  /\ IF o.kind = "raise"
                     THEN /\ returned' = Append(returned,
                                 [item |-> item, args |-> a, via |-> "wrapper",
                                  result |-> o])
                          /\ wpc' = "idle"
                     ELSE wpc' = "invoked" /\ UNCHANGED returned
             ELSE /\ returned' = Append(returned,
                         [item |-> item, args |-> a, via |-> "direct", result |-> o])
                  /\ wpc' = "idle"
                  /\ UNCHANGED steps
    /\ UNCHANGED <<srvVars, genVars, nukeVars, prefVars, listVars, fixVars,
                   item, attr,
                   accesses>>

\* the original method returned: the wrapper attaches the arguments and the
\* response to the step, closes it and returns the response (lines 930-934)
WAttach ==
    /\ wpc = "invoked"
    /\ steps' = [steps EXCEPT ![Len(steps)] =
                    [@ EXCEPT !.attachments = Attachments(args, response),
                              !.status = "passed"]]
    /\ returned' = Append(returned, [item |-> item, args |-> args, via |-> "wrapper",
                                     result |-> WrapperReturn(response)])
    /\ wpc' = "idle"
    /\ UNCHANGED <<srvVars, genVars, nukeVars, prefVars, listVars, fixVars,
                   item, args, attr,
                   response, invoked, accesses>>

NextWrap == WGet \/ WInvoke \/ WAttach

SpecWrap == InitWrap /\ [][NextWrap]_vars

\* ------------------------------------------------- setup() and teardown()
\* the identities whose buckets are reclaimed, in the order of lines 299-301
\* and 311-313: the main client (client=None), alt_client, tenant_client
Identities == <<"main", "alt", "tenant">>
Fixtures == {"setup", "teardown"}
\* the bucket an identity may own under the prefix
OwnBucket(k) == IF k = 1 THEN BucketA ELSE IF k = 2 THEN BucketD ELSE BucketB
FixturePrefix == <<"t">>

\* a variant that catches the exception and goes on with the next identity
AfterIdentityGoOn(k, failed) == IF k < Len(Identities) THEN "next" ELSE "done"

\* The three calls are plain statements, one after the other, outside any
\* try: an exception of one of them leaves the fixture; after the third the
\* fixture goes on with the rest of its body.
AfterIdentity(k, failed) ==
    IF failed THEN "raised"
    ELSE IF k < Len(Identities) THEN "next" ELSE "done"

\* a fixture with no bucket reclaimed yet: every identity owns no bucket or
\* one, empty or holding one version that may be locked
InitFixture ==
    /\ clock = StartTime /\ ticks = 0 /\ shortLeft = 0 /\ faults = 0 /\ calls = <<>>
    /\ owned \in [1..Len(Identities) -> {<<>>} \cup
                     {<<OwnBucket(k)>> : k \in 1..Len(Identities)}]
    /\ \A k \in 1..Len(Identities) : owned[k] \in {<<>>, <<OwnBucket(k)>>}
    /\ srvBuckets = <<>>
    /\ exists = UNION {Range(owned[k]) : k \in 1..Len(Identities)}
    /\ contents \in [exists -> {{}, {Ref(1, 1)}}]
    /\ deleteMarkers = {}
    /\ \E d \in {None, StartTime + 1, StartTime + MaxWaitSeconds + 1} :
          retainUntil = [r \in Refs |-> IF r = Ref(1, 1) THEN d ELSE None]
    /\ deleteError = [r \in Refs |-> ""]
    /\ GenIdle /\ NukeIdle /\ PrefIdle /\ ListIdle /\ WrapIdle
    /\ fixture \in Fixtures /\ fpc = "next" /\ ident = 1
    /\ started = <<>> /\ ended = <<>>
    /\ bucket_counter = 1 /\ names = <<>>
    /\ ChooseIdle

\* nuke_prefixed_buckets(prefix=prefix, client=...) is called for the next
\* identity (lines 299-301, 311-313): its client lists that identity's buckets
FixCall ==
    /\ fpc = "next" /\ ident <= Len(Identities)
    /\ srvBuckets' = owned[ident]
    /\ ppc' = "start" /\ prefix' = FixturePrefix
    /\ buckets' = <<>> /\ idx' = 0
    /\ err' = NoError /\ raised' = NoError /\ attempts' = <<>> /\ outcomes' = <<>>
    /\ started' = Append(started, Identities[ident])
    /\ fpc' = "in_prefixed"
    /\ UNCHANGED <<clock, ticks, shortLeft, exists, contents, deleteMarkers,
                   retainUntil, deleteError, faults, calls, genVars, nukeVars,
                   listVars, wrapVars, fixture, ident, owned, ended,
                   bucket_counter, names, chooseVars>>

\* nuke_prefixed_buckets is over: the fixture goes on to the next statement,
\* or the exception leaves it
FixNext ==
    /\ fpc = "in_prefixed" /\ ppc \in {"returned", "raised"}
    /\ ended' = Append(ended, [identity |-> Identities[ident],
                               exc |-> IF ppc = "raised" THEN raised ELSE NoError])
    /\ fpc' = AfterIdentity(ident, ppc = "raised")
    /\ ident' = IF AfterIdentity(ident, ppc = "raised") = "next"
                THEN ident + 1 ELSE ident
    /\ ppc' = "idle"
    /\ UNCHANGED <<srvVars, genVars, nukeVars, prefix, buckets, idx, err, raised,
                   attempts, outcomes, listVars, wrapVars, fixture, owned, started,
                   bucket_counter, names, chooseVars>>

NextFixture ==
    \/ FixCall \/ FixNext
    \/ PrefStart \/ PrefCall \/ PrefNext \/ PrefEnd
    \/ NukeList \/ NukeDelete \/ NukeProbe \/ NukeCheck \/ NukeDeleteBucket \/ Tick

SpecFixture == InitFixture /\ [][NextFixture]_vars

\* ---------------------------------------------------- get_new_bucket_name
\* str(num): the decimal digits of a positive integer
DigitChars == <<"0", "1", "2", "3", "4", "5", "6", "7", "8", "9">>

\* a variant that only keeps the last digit
DigitsLast(n) == <<DigitChars[(n % 10) + 1]>>

RECURSIVE Digits(_)
Digits(n) ==
    IF n < 10 THEN <<DigitChars[n + 1]>>
    ELSE Digits(n \div 10) \o <<DigitChars[(n % 10) + 1]>>

\* "{prefix}{num}".format(prefix=prefix, num=...) (lines 658-661)
NewBucketName(p, num) == p \o Digits(num)

\* the prefixes a run may have chosen
RunPrefixes == {<<"t">>, <<"t", "1">>}

\* one process: the prefix is chosen, no name was asked for yet
InitNames ==
    /\ QuietService
    /\ srvBuckets = <<BucketC>> /\ exists = {BucketC}
    /\ contents = [b \in {BucketC} |-> {}]
    /\ deleteMarkers = {}
    /\ GenIdle /\ NukeIdle /\ ListIdle /\ WrapIdle
    /\ ppc = "idle" /\ prefix \in RunPrefixes /\ buckets = <<>> /\ idx = 0
    /\ err = NoError /\ raised = NoError /\ attempts = <<>> /\ outcomes = <<>>
    /\ fixture = "" /\ fpc = "naming" /\ ident = 0 /\ owned = <<>>
    /\ started = <<>> /\ ended = <<>>
    /\ bucket_counter = 1 /\ names = <<>>
    /\ ChooseIdle

\* get_new_bucket_name(), lines 650-663: next(bucket_counter) is formatted
\* behind the prefix
GetNewBucketName ==
    /\ fpc = "naming" /\ bucket_counter <= MaxNames
    /\ names' = Append(names, NewBucketName(prefix, bucket_counter))
    /\ bucket_counter' = bucket_counter + 1
    /\ UNCHANGED <<srvVars, genVars, nukeVars, prefVars, listVars, wrapVars,
                   fixture, fpc, ident, owned, started, ended, chooseVars>>

\* get_new_bucket(), lines 690-702: a bucket is created under a name that
\* get_new_bucket_name returned
CreateBucket ==
    /\ fpc = "naming" /\ Len(srvBuckets) <= MaxCreated
    /\ \E i \in 1..Len(names) :
          /\ names[i] \notin exists
          /\ srvBuckets' = Append(srvBuckets, names[i])
          /\ exists' = exists \cup {names[i]}
          /\ contents' = [b \in exists \cup {names[i]} |->
                            IF b \in exists THEN contents[b] ELSE {}]
          /\ calls' = Append(calls, Call("create_bucket", names[i], 0, names[i],
                                         NoError))
    /\ UNCHANGED <<clock, ticks, shortLeft, deleteMarkers, retainUntil, deleteError,
                   faults, genVars, nukeVars, prefVars, listVars, wrapVars, fixVars>>

\* get_buckets_list(client, prefix), lines 59-71, as cleanup calls it
NamesList ==
    /\ fpc = "naming"
    /\ calls' = Append(calls, Call("list_buckets", <<>>, 0, <<>>, NoError))
    /\ buckets' = GetBucketsList(srvBuckets, prefix)
    /\ fpc' = "listed"
    /\ UNCHANGED <<clock, ticks, shortLeft, srvBuckets, exists, contents,
                   deleteMarkers, retainUntil, deleteError, faults, genVars,
                   nukeVars, ppc, prefix, idx, err, raised, attempts, outcomes,
                   listVars, wrapVars, fixture, ident, owned, started, ended,
                   bucket_counter, names, chooseVars>>

NextNames == GetNewBucketName \/ CreateBucket \/ NamesList

SpecNames == InitNames /\ [][NextNames]_vars

\* ---------------------------------------------------- choose_bucket_prefix
\* a template is a sequence of parts: literal characters and the replacement
\* field {random}
RandomField == "{random}"
TemplateParts == {"-", RandomField}
Templates == UNION {[1..n -> TemplateParts] : n \in 0..MaxTemplate}
\* the limits asked for
MaxLens == (0..MaxLen) \cup {DefaultMaxLen} \cup
           {FillerLength + d : d \in 0..MaxLen}
\* the characters random.choice draws from, and the fillers explored: the
\* characters differ along the filler, so that its parts can be told apart
FillerChars == <<"a", "b", "0">>
Fillers == {[i \in 1..FillerLength |-> FillerChars[((i + seed) % 3) + 1]] :
               seed \in {0, 1}}

\* template.format(random=rand): every field is replaced by the filler
Format(t, r) ==
    Flatten([i \in 1..Len(t) |-> IF t[i] = RandomField THEN r ELSE <<t[i]>>])

\* a variant that stops one character short of the limit
FitsStrict(str, limit) == Len(str) < limit

\* if len(s) <= max_len: (line 47)
Fits(str, limit) == Len(str) <= limit

\* rand[:-1] (line 49)
Shorten(r) == SubSeq(r, 1, Len(r) - 1)

InitChoose ==
    /\ QuietService
    /\ srvBuckets = <<>> /\ exists = {} /\ contents = <<>>
    /\ deleteMarkers = {}
    /\ GenIdle /\ NukeIdle /\ PrefIdle /\ ListIdle /\ WrapIdle
    /\ fixture = "" /\ fpc = "idle" /\ ident = 0 /\ owned = <<>>
    /\ started = <<>> /\ ended = <<>>
    /\ bucket_counter = 1 /\ names = <<>>
    /\ template \in Templates /\ max_len \in MaxLens
    /\ filler = <<>> /\ rand = <<>> /\ cpc = "called" /\ chosen = <<>>

\* rand = "".join(random.choice(...) for c in range(255)) (lines 41-43)
ChooseDraw ==
    /\ cpc = "called"
    /\ \E f \in Fillers : filler' = f /\ rand' = f
    /\ cpc' = "loop"
    /\ UNCHANGED <<srvVars, genVars, nukeVars, prefVars, listVars, wrapVars,
                   fixture, fpc, ident, owned, started, ended, bucket_counter,
                   names, template, max_len, chosen>>

\* one turn of the loop, lines 45-49: format, return what fits, else drop the
\* last character of the filler
ChooseTry ==
    /\ cpc = "loop" /\ rand # <<>>
    /\ IF Fits(Format(template, rand), max_len)
       THEN chosen' = Format(template, rand) /\ cpc' = "returned" /\ UNCHANGED rand
       ELSE rand' = Shorten(rand) /\ UNCHANGED <<cpc, chosen>>
    /\ UNCHANGED <<srvVars, genVars, nukeVars, prefVars, listVars, wrapVars,
                   fixture, fpc, ident, owned, started, ended, bucket_counter,
                   names, template, max_len, filler>>

\* the filler is used up: raise RuntimeError (lines 51-55)
ChooseFail ==
    /\ cpc = "loop" /\ rand = <<>>
    /\ cpc' = "raised"
    /\ UNCHANGED <<srvVars, genVars, nukeVars, prefVars, listVars, wrapVars,
                   fixture, fpc, ident, owned, started, ended, bucket_counter,
                   names, template, max_len, filler, rand, chosen>>

NextChoose == ChooseDraw \/ ChooseTry \/ ChooseFail

SpecChoose == InitChoose /\ [][NextChoose]_vars

\* ----------------------------------------------------- running to the end
\* The three entry points, each run once from any of its initial states. The
\* code is sequential and has no blocking wait other than its one sleep: as
\* long as a step is possible the interpreter takes one, and the service
\* answers every request.
InitAll == InitList \/ InitNuke \/ InitShort \/ InitPrefixed

NextAll == NextList \/ NextNuke \/ NextPrefixed

SpecFair == InitAll /\ [][NextAll]_vars /\ WF_vars(NextAll)

\* ====================================================================
\* Properties
\* ====================================================================
CeilDiv(n, d) == (n + d - 1) \div d

\* the service answered enumeration e in full pages: ceil(N/batch_size)
\* requests (one request, for the empty page, when the bucket is empty)
ServedInFullPages(e) ==
    LET N == Cardinality(contents[bucket])
    IN Len(requests[e]) = IF N = 0 THEN 1 ELSE CeilDiv(N, batch_size)

\* C1 - Full enumeration: once list_versions has run to its end on a bucket of
\* N versions and delete markers served as ceil(N/batch_size) pages, it has
\* yielded exactly ceil(N/batch_size) batches, each non-empty and of at most
\* batch_size entries, and the batches concatenated are the bucket's
\* references, each exactly once.
C1_FullEnumeration ==
    (enum > 1 /\ ServedInFullPages(1)) =>
        LET N == Cardinality(contents[bucket])
            all == Flatten(yielded[1])
        IN /\ Len(yielded[1]) = CeilDiv(N, batch_size)
           /\ \A i \in 1..Len(yielded[1]) :
                 Len(yielded[1][i]) > 0 /\ Len(yielded[1][i]) <= batch_size
           /\ Len(all) = N
           /\ Range(all) = contents[bucket]

\* a bucket of three entries, one of them a delete marker, enumerated in two
\* batches
C1_Witness ==
    /\ enum > 1 /\ ServedInFullPages(1)
    /\ Cardinality(contents[bucket]) = 3 /\ batch_size = 2
    /\ deleteMarkers # {}
    /\ Len(yielded[1]) = 2

\* C10 - Idempotent re-listing: two list_versions calls on an unchanged bucket
\* both send a first request without markers and yield the same batches in
\* the same order.
C10_IdempotentRelisting ==
    /\ \A e \in 1..2 :
          Len(requests[e]) > 0 =>
              requests[e][1].KeyMarker = None /\ requests[e][1].VersionIdMarker = None
    /\ enum > 2 => /\ yielded[2] = yielded[1]
                   /\ requests[2] = requests[1]
                   /\ Len(requests[2]) > 0

\* both enumerations are over and took more than one page
C10_Witness ==
    /\ enum > 2
    /\ Len(yielded[1]) >= 2 /\ Len(yielded[2]) >= 2
    /\ Len(requests[2]) >= 2

\* -------------------------------------------------- nuke_bucket, one bucket
\* the history entries of one kind
CallsOf(ops) == {i \in 1..Len(calls) : calls[i].op \in ops}
StorageOps == {"list_object_versions", "delete_objects", "get_object_retention",
               "delete_bucket"}
\* the calls of pass 2 and after
LateCalls == {i \in 1..Len(calls) :
                 \/ calls[i].pass = 2
                 \/ calls[i].op = "delete_bucket"}
\* the seconds between the clock read of line 140 and max_retain_date
Remaining == max_retain_date - now
\* nuke_bucket has read the clock for a retention date found in pass 1
Checked == now # None /\ max_retain_date # None

\* C2 - Unresolvable lock: when the maximum retention date found in pass 1 is
\* more than 60 seconds after the time nuke_bucket reads, nuke_bucket has
\* raised its RuntimeError carrying the bucket and the remaining seconds, has
\* not slept, has issued no call of pass 2 and no delete_bucket, and the
\* bucket still exists.
C2_UnresolvableLock ==
    (Checked /\ Remaining > MaxWaitSeconds) =>
        /\ pc = "raised"
        /\ result = Exc("RuntimeError", "nuke_bucket", bucket, Remaining)
        /\ CallsOf({"sleep"}) = {}
        /\ LateCalls = {}
        /\ bucket \in exists

\* the lock outlasts the bound by one second
C2_Witness ==
    /\ Checked /\ Remaining = MaxWaitSeconds + 1
    /\ pc = "raised" /\ result.type = "RuntimeError"

\* C3 - Resolved lock: when the maximum retention date found in pass 1 lies
\* delta seconds ahead, 0 < delta <= 60, nuke_bucket sleeps exactly once, for
\* exactly delta seconds; everything it does afterwards is pass 2 (which
\* starts with a listing without markers) and then delete_bucket; and when no
\* storage call fails and no version is refused for another reason than its
\* lock, nuke_bucket returns and the bucket is gone.
C3_ResolvedLock ==
    (Checked /\ Remaining > 0 /\ Remaining <= MaxWaitSeconds) =>
        /\ Cardinality(CallsOf({"sleep"})) = 1
        /\ \A i \in CallsOf({"sleep"}) :
              /\ calls[i].arg = Remaining
              /\ \A j \in 1..Len(calls) : j > i <=> j \in LateCalls
              /\ i < Len(calls) =>
                    /\ calls[i + 1].op = "list_object_versions"
                    /\ calls[i + 1].arg.KeyMarker = None
                    /\ calls[i + 1].arg.VersionIdMarker = None
              /\ \A j \in CallsOf({"delete_bucket"}) : j > i + 1
        /\ pc # "raised" \/ result.type # "RuntimeError"
        /\ (pc \in {"returned", "raised"} /\ faults = 0
               /\ \A r \in Refs : deleteError[r] = "")
              => (pc = "returned" /\ bucket \notin exists /\ contents[bucket] = {})

\* a lock of exactly 60 seconds is waited out and the bucket is deleted
C3_Witness ==
    /\ Checked /\ Remaining = MaxWaitSeconds
    /\ pc = "returned" /\ bucket \notin exists
    /\ \E i \in CallsOf({"sleep"}) : calls[i].arg = MaxWaitSeconds

\* C8 - Storage failures propagate, unretried: a failed list_object_versions,
\* delete_objects or delete_bucket call is the last call nuke_bucket issues for
\* the bucket, and nuke_bucket has raised that call's exception.
C8_FailuresPropagate ==
    \A i \in CallsOf({"list_object_versions", "delete_objects", "delete_bucket"}) :
        calls[i].exc # NoError =>
            /\ i = Len(calls)
            /\ pc = "raised"
            /\ result = calls[i].exc

\* a batch delete of pass 2 failed and nuke_bucket raised
C8_Witness ==
    /\ pc = "raised"
    /\ Len(calls) > 0
    /\ calls[Len(calls)].op = "delete_objects" /\ calls[Len(calls)].pass = 2
    /\ calls[Len(calls)].exc # NoError
    /\ result = calls[Len(calls)].exc

\* ------------------------------------------------- nuke_prefixed_buckets
\* name holds p somewhere: name = u \o p \o w for some u and w
IsSubstring(p, name) ==
    \E i \in 0..Len(name) : \E j \in i..Len(name) : SubSeq(name, i + 1, j) = p
\* the listed buckets whose name holds the prefix, in listing order
Matching == SelectSeq(srvBuckets, LAMBDA name : IsSubstring(prefix, name))
\* list_buckets answered
Listed == Len(calls) > 0 /\ calls[1].op = "list_buckets" /\ calls[1].exc = NoError
\* nuke_prefixed_buckets is over, after a listing that answered
Finished == ppc \in {"returned", "raised"} /\ Listed
\* the buckets whose nuke_bucket raised, by position
FailedAt == {i \in 1..Len(outcomes) : outcomes[i].exc # NoError}
MaxOf(S) == CHOOSE x \in S : \A y \in S : y <= x

\* C4 - Fault isolation: nuke_bucket is entered on the matching buckets one
\* by one in listing order, each once, whatever the earlier outcomes were; when
\* nuke_prefixed_buckets ends, by returning or by raising, every matching
\* bucket has been processed.
C4_FaultIsolation ==
    /\ Len(attempts) <= Len(Matching)
    /\ attempts = SubSeq(Matching, 1, Len(attempts))
    /\ Len(outcomes) <= Len(attempts) /\ Len(attempts) <= Len(outcomes) + 1
    /\ \A i \in 1..Len(outcomes) : outcomes[i].bucket = attempts[i]
    /\ Finished => attempts = Matching /\ Len(outcomes) = Len(Matching)

\* of three buckets the second failed, the first and the third are gone, and
\* the error came out after the third
C4_Witness ==
    /\ ppc = "raised" /\ Listed
    /\ Len(outcomes) = 3
    /\ outcomes[1].exc = NoError /\ outcomes[1].bucket \notin exists
    /\ outcomes[2].exc # NoError /\ outcomes[2].bucket \in exists
    /\ outcomes[3].exc = NoError /\ outcomes[3].bucket \notin exists
    /\ raised = outcomes[2].exc

\* C5 - Last-error aggregation: nuke_prefixed_buckets returns exactly when no
\* nuke_bucket raised, and otherwise raises the exception of the last bucket,
\* in listing order, whose nuke_bucket raised.
C5_LastError ==
    Finished =>
        /\ ppc = "returned" <=> FailedAt = {}
        /\ FailedAt # {} => raised = outcomes[MaxOf(FailedAt)].exc
        /\ FailedAt = {} => raised = NoError

\* two buckets failed with different errors and the later one's came out
C5_Witness ==
    /\ ppc = "raised" /\ Listed
    /\ Cardinality(FailedAt) = 2
    /\ \E i, j \in FailedAt :
          i < j /\ outcomes[i].exc # outcomes[j].exc /\ raised = outcomes[j].exc

\* C9 - Namespace selection: nuke_bucket is only entered on listed buckets
\* whose name holds the prefix, in the end on all of them, and no storage call
\* names a bucket whose name does not hold the prefix.
C9_NamespaceSelection ==
    /\ \A i \in 1..Len(attempts) :
          attempts[i] \in Range(srvBuckets) /\ IsSubstring(prefix, attempts[i])
    /\ Finished =>
          Range(attempts) = {n \in Range(srvBuckets) : IsSubstring(prefix, n)}
    /\ \A i \in CallsOf(StorageOps) : IsSubstring(prefix, calls[i].bucket)

\* a bucket that holds the prefix in the middle of its name was reclaimed,
\* a listed bucket without it was left alone
C9_Witness ==
    /\ Finished
    /\ BucketB \in Range(attempts) /\ BucketB \notin exists
    /\ BucketC \in Range(srvBuckets) /\ BucketC \in exists
    /\ \E i \in CallsOf({"delete_bucket"}) : calls[i].bucket = BucketB

\* ------------------------------------------------------ WrappedClient
\* no call through the proxy is under way
Quiescent == wpc \in {"idle", "got"}
\* the calls made through log_and_call's wrapper, in order
WrapperCalls == SelectSeq(returned, LAMBDA c : c.via = "wrapper")
\* the k-th step of the trace shows the arguments / the result of the k-th
\* call through the wrapper
ArgsRecorded(k) ==
    /\ Len(steps[k].attachments) >= 1
    /\ steps[k].attachments[1] = Str([args |-> WrapperCalls[k].args])
ResultRecorded(k) ==
    /\ Len(steps[k].attachments) = 2
    /\ steps[k].attachments[2] = Str(WrapperCalls[k].result.value)
\* every call ran the client's method once, with the caller's arguments, and
\* gave the caller what the method returned or raised
Transparent ==
    /\ Len(invoked) = Len(returned)
    /\ \A k \in 1..Len(returned) :
          /\ invoked[k].name = returned[k].item
          /\ invoked[k].args = returned[k].args
          /\ returned[k].result = invoked[k].outcome
          /\ returned[k].via = "wrapper" <=> returned[k].item \in OpNames
\* each call through the wrapper made one step, named after the operation
OneStepPerCall ==
    /\ Len(steps) = Len(WrapperCalls)
    /\ \A k \in 1..Len(steps) : steps[k].title = WrapperCalls[k].item

\* C6 as stated - every call of an operation through the proxy is passed on
\* unchanged and leaves one step that records the arguments and, when the
\* operation returned, the result.
C6_AsStated ==
    Quiescent =>
        /\ Transparent
        /\ OneStepPerCall
        /\ \A k \in 1..Len(steps) :
              /\ ArgsRecorded(k)
              /\ WrapperCalls[k].result.kind = "return" => ResultRecorded(k)

\* C6 - Instrumentation transparency: every call of an operation through the
\* proxy runs the client's method once with the same arguments and gives back
\* what it returned or raised, and leaves exactly one step in the trace; the
\* step records the arguments and the result when the operation returned, and
\* records neither when it raised.
C6_Transparency ==
    Quiescent =>
        /\ Transparent
        /\ OneStepPerCall
        /\ \A k \in 1..Len(steps) :
              IF WrapperCalls[k].result.kind = "return"
              THEN ArgsRecorded(k) /\ ResultRecorded(k)
                   /\ steps[k].status = "passed"
              ELSE steps[k].attachments = <<>> /\ steps[k].status = "failed"

\* one operation returned and one raised, both through the proxy
C6_Witness ==
    /\ Quiescent
    /\ Len(WrapperCalls) = 2
    /\ WrapperCalls[1].result.kind = "return"
    /\ WrapperCalls[2].result.kind = "raise"
    /\ WrapperCalls[1].item = "delete_objects"

\* what a lookup gives: the same through the proxy as on the client
SameAsDirect(k) == accesses[k].got = accesses[k].direct
\* the step count only grows with calls of operations
NothingLoggedForOthers ==
    /\ \A k \in 1..Len(steps) : steps[k].title \in OpNames
    /\ Len(steps) = Cardinality({k \in 1..Len(invoked) : invoked[k].name \in OpNames})

\* C7 as stated - every name outside the operation names gives, through the
\* proxy, the wrapped client's own attribute, and nothing is logged.
C7_AsStated ==
    /\ \A k \in 1..Len(accesses) : accesses[k].item \notin OpNames => SameAsDirect(k)
    /\ NothingLoggedForOthers

\* C7 - Pass-through: every name that is neither an operation name nor an
\* attribute of the proxy object itself (client) gives, through the proxy,
\* exactly what the wrapped client gives (its attribute, or AttributeError),
\* and looking it up or calling it adds nothing to the trace.
C7_PassThrough ==
    /\ \A k \in 1..Len(accesses) :
          accesses[k].item \notin (OpNames \cup {"client"}) => SameAsDirect(k)
    /\ NothingLoggedForOthers

\* a helper method was fetched through the proxy and called, a data attribute
\* was fetched, and the trace is empty
C7_Witness ==
    /\ wpc = "idle"
    /\ Len(accesses) = 2
    /\ accesses[1].item = "can_paginate" /\ accesses[1].got.kind = "method"
    /\ Len(returned) = 1 /\ returned[1].via = "direct"
    /\ accesses[2].item = "meta"
    /\ steps = <<>>

\* ------------------------------------------- nuke_bucket, order of calls
\* the phase a history entry belongs to: pass 1 (listings, deletes and
\* probes), the wait, pass 2, the bucket delete
Phase(c) ==
    IF c.op = "delete_bucket" THEN 4
    ELSE IF c.pass = 2 THEN 3
    ELSE IF c.op = "sleep" THEN 2
    ELSE 1
Probes == CallsOf({"get_object_retention"})
Pass1Deletes == {i \in CallsOf({"delete_objects"}) : calls[i].pass = 1}
\* the last pass-1 delete issued before history entry i
LastDeleteBefore(i) == MaxOf({j \in Pass1Deletes : j < i})

\* C11 as stated - every delete_objects call of pass 1 comes before the first
\* probe, and the phases follow one another.
C11_AsStated ==
    /\ \A d \in Pass1Deletes : \A g \in Probes : d < g
    /\ \A i, j \in 1..Len(calls) : i < j => Phase(calls[i]) <= Phase(calls[j])

\* C11 - Phase ordering: in the history of one nuke_bucket no call of a later
\* phase precedes a call of an earlier one, the phases being pass 1, the wait,
\* pass 2 and delete_bucket. Inside pass 1 the probes are interleaved with the
\* deletes: each probe asks about a version that the latest delete_objects
\* call before it reported as AccessDenied, and comes before the next listing.
C11_PhaseOrder ==
    /\ \A i, j \in 1..Len(calls) : i < j => Phase(calls[i]) <= Phase(calls[j])
    /\ \A g \in Probes :
          /\ calls[g].pass = 1
          /\ \E d \in Pass1Deletes : d < g
          /\ \E k \in 1..Len(calls[LastDeleteBefore(g)].resp.Errors) :
                LET e == calls[LastDeleteBefore(g)].resp.Errors[k]
                IN e.Code = "AccessDenied" /\ Ref(e.Key, e.VersionId) = calls[g].arg
          /\ \A l \in CallsOf({"list_object_versions"}) :
                ~(LastDeleteBefore(g) < l /\ l < g)

\* all four phases happened, and a probe came before the second delete of
\* pass 1
C11_Witness ==
    /\ pc = "returned"
    /\ {Phase(calls[i]) : i \in 1..Len(calls)} = {1, 2, 3, 4}
    /\ \E g \in Probes : \E d \in Pass1Deletes : g < d

\* -------------------------------------------------- nuke_bucket, pass 2
Pass2Calls == {i \in 1..Len(calls) : calls[i].pass = 2}
Pass2Listings == Pass2Calls \cap CallsOf({"list_object_versions"})
Pass2Deletes == Pass2Calls \cap CallsOf({"delete_objects"})
\* nuke_bucket raised the RuntimeError of the retention check
FailedFast == pc = "raised" /\ result.type = "RuntimeError"

\* C12 as stated - delete_bucket is only called after a listing of pass 2,
\* with or without a retention hold, and pass 2 is not reached after a
\* fail-fast.
C12_AsStated ==
    /\ \A i \in CallsOf({"delete_bucket"}) : \E j \in Pass2Listings : j < i
    /\ FailedFast => Pass2Calls = {}

\* C12 - Pass 2 is reached exactly when pass 1 found a retention date and the
\* lock is over or waited out: then the versions are listed again, from the
\* start, and deleted in batches before delete_bucket is called. When pass 1
\* found no date, delete_bucket is called without a second listing; after a
\* fail-fast there is no pass 2 either.
C12_Pass2 ==
    /\ \A i \in CallsOf({"delete_bucket"}) :
          (\E j \in Pass2Listings : j < i) <=> max_retain_date # None
    /\ Pass2Calls # {} =>
          /\ Checked /\ Remaining <= MaxWaitSeconds
          /\ \A i \in Pass2Calls :
                calls[i].op \in {"list_object_versions", "delete_objects"}
          /\ LET first == CHOOSE i \in Pass2Calls : \A j \in Pass2Calls : i <= j
             IN /\ calls[first].op = "list_object_versions"
                /\ calls[first].arg = NewKwargs(bucket, batch_size)
    /\ \A i \in Pass2Deletes :
          /\ i > 1 /\ calls[i - 1].op = "list_object_versions"
          /\ calls[i - 1].exc = NoError
          /\ calls[i].arg = ListingObjs(calls[i - 1].resp)
    /\ FailedFast => Pass2Calls = {}
    /\ max_retain_date = None => Pass2Calls = {}

\* a hold was waited out, the second pass deleted a batch, the bucket is gone
C12_Witness ==
    /\ pc = "returned" /\ Checked /\ Remaining > 0
    /\ Pass2Deletes # {}
    /\ bucket \notin exists

\* no hold was found: the bucket was deleted after pass 1 alone
C12_WitnessNoHold ==
    /\ pc = "returned" /\ max_retain_date = None
    /\ Pass1Deletes # {} /\ Pass2Calls = {}

\* ------------------------------------------ WrappedClient, log ordering
\* the invocations of operations on the wrapped client, in order: the k-th
\* belongs to the k-th step of the trace
OpInvocations == SelectSeq(invoked, LAMBDA c : c.name \in OpNames)
ArgsInTrace(k) ==
    /\ Len(steps[k].attachments) >= 1
    /\ steps[k].attachments[1] = Str([args |-> OpInvocations[k].args])

\* C13 as stated - once an operation has been invoked through the proxy, the
\* arguments of the call are in the trace, whether the operation returns or
\* raises.
C13_AsStated ==
    /\ Len(steps) = Len(OpInvocations)
    /\ \A k \in 1..Len(steps) : ArgsInTrace(k)

\* C13 - Log ordering: for every call of an operation through the proxy the
\* step is opened before the operation is invoked, and the arguments and the
\* result are recorded, in this order, only after the operation has returned;
\* while the operation runs, and when it raises, the step holds neither.
C13_LogOrder ==
    /\ Len(steps) = Len(OpInvocations)
    /\ \A k \in 1..Len(steps) :
          /\ steps[k].title = OpInvocations[k].name
          /\ IF steps[k].status = "passed"
             THEN /\ OpInvocations[k].outcome.kind = "return"
                  /\ steps[k].attachments =
                        <<Str([args |-> OpInvocations[k].args]),
                          Str(OpInvocations[k].outcome.value)>>
             ELSE steps[k].attachments = <<>>
          /\ steps[k].status = "failed" <=> OpInvocations[k].outcome.kind = "raise"
          /\ steps[k].status = "open" <=> (k = Len(steps) /\ wpc = "invoked")

\* an operation raised, the next one is running: the trace holds the
\* arguments of neither
C13_Witness ==
    /\ wpc = "invoked"
    /\ Len(steps) = 2
    /\ steps[1].status = "failed" /\ steps[1].attachments = <<>>
    /\ steps[2].status = "open" /\ steps[2].attachments = <<>>

\* ------------------------------------------- nuke_bucket, failing probes
\* the step issues a probe that fails
ProbeFails ==
    /\ Len(calls') = Len(calls) + 1
    /\ calls'[Len(calls')].op = "get_object_retention"
    /\ calls'[Len(calls')].exc # NoError
FailedProbe == calls'[Len(calls')].exc
\* pass 1 goes on: the next error of the response, else the next batch, else
\* the end of the pass
Pass1GoesOn ==
    /\ errors' = Tail(errors)
    /\ pc' = IF Tail(errors) # <<>> THEN "probe"
             ELSE IF truncated THEN "list1" ELSE "check"
    /\ result' = result
ProbeSwallowed == ProbeFails => max_retain_date' = max_retain_date /\ Pass1GoesOn

\* C14 as stated - a failing probe never makes nuke_bucket fail, whatever the
\* exception: it leaves max_retain_date alone and pass 1 goes on.
C14_AsStated == [][ProbeSwallowed]_vars

\* C14 - Best-effort probe: a get_object_retention that fails with a
\* ClientError is swallowed: max_retain_date is left unchanged and pass 1 goes
\* on with the remaining errors and batches; a probe that fails with any other
\* exception ends nuke_bucket with that exception, max_retain_date unchanged.
C14_BestEffort ==
    [][ProbeFails =>
          /\ max_retain_date' = max_retain_date
          /\ IF FailedProbe.type = "ClientError"
             THEN Pass1GoesOn
             ELSE pc' = "raised" /\ result' = FailedProbe /\ errors' = errors]_vars

\* a probe failed with a ClientError, and nuke_bucket went on to delete the
\* bucket
C14_Witness ==
    /\ pc = "returned"
    /\ \E i \in Probes : /\ calls[i].exc.type = "ClientError"
                         /\ \E j \in Pass1Deletes : j > i

\* a probe failed with another exception, which ended nuke_bucket
C14_WitnessOther ==
    /\ pc = "raised" /\ result.type = "OtherError"
    /\ result.op = "get_object_retention"

\* -------------------------------------- nuke_bucket, the retention dates
\* the versions a delete response of pass 1 reports as AccessDenied
DeniedIn(c) ==
    IF c.op = "delete_objects" /\ c.pass = 1 /\ c.exc = NoError
    THEN LET denied == SelectSeq(c.resp.Errors, LAMBDA e : e.Code = "AccessDenied")
         IN [i \in 1..Len(denied) |-> Ref(denied[i].Key, denied[i].VersionId)]
    ELSE <<>>
\* all of them, in the order the responses list them
Denied == Flatten([i \in 1..Len(calls) |-> DeniedIn(calls[i])])
\* the errors with another code
OtherErrors ==
    {i \in Pass1Deletes : calls[i].exc = NoError /\
        \E k \in 1..Len(calls[i].resp.Errors) :
            calls[i].resp.Errors[k].Code # "AccessDenied"}
\* the versions probed, in order
Probed == Flatten([i \in 1..Len(calls) |->
              IF calls[i].op = "get_object_retention" THEN <<calls[i].arg>>
              ELSE <<>>])
\* the versions whose probe gave a retention date
Retained == {calls[i].arg : i \in {j \in Probes : calls[j].exc = NoError}}
\* pass 1 ran to its end
Pass1Done == pc \in {"check", "delete_bucket"} \/ Checked \/ LateCalls # {}

\* C15 - Maximum retention: max_retain_date is the maximum retention date over
\* the versions that a delete response of pass 1 reported AccessDenied and
\* whose probe succeeded, and is unset when there is none; the probes are, in
\* order, the AccessDenied errors of the delete responses, one each with the
\* error's key and version id, all of them once pass 1 is over, and no other
\* error is probed.
C15_MaxRetention ==
    /\ max_retain_date = IF Retained = {} THEN None
                         ELSE MaxOf({retainUntil[r] : r \in Retained})
    /\ Len(Probed) <= Len(Denied)
    /\ Probed = SubSeq(Denied, 1, Len(Probed))
    /\ Pass1Done => Probed = Denied
    /\ \A i \in Probes : calls[i].pass = 1

\* pass 1 is over: two locked versions were probed, the later date first, and
\* an error with another code was not
C15_Witness ==
    /\ Pass1Done
    /\ \E i, j \in Probes :
          /\ i < j /\ calls[i].exc = NoError /\ calls[j].exc = NoError
          /\ calls[i].resp > calls[j].resp
    /\ OtherErrors # {}

\* ------------------------------------------- list_versions, the cursor
\* the response to the i-th request of enumeration e (the bucket does not
\* change while it is enumerated)
ResponseTo(e, i) == ListObjectVersions(contents[bucket], requests[e][i])
\* enumeration e has ended
Ended(e) == enum > e

\* C16 - Cursor discipline: the first request of an enumeration carries no
\* markers; every later request carries the NextKeyMarker and the
\* NextVersionIdMarker of the response before it, with the same bucket and
\* MaxKeys; a response that is not truncated is the last of its enumeration,
\* and an enumeration only ends after such a response.
C16_CursorDiscipline ==
    \A e \in 1..2 :
       /\ \A i \in 1..Len(requests[e]) :
             /\ requests[e][i].Bucket = bucket
             /\ requests[e][i].MaxKeys = batch_size
             /\ i = 1 => /\ requests[e][i].KeyMarker = None
                         /\ requests[e][i].VersionIdMarker = None
             /\ i > 1 => /\ ResponseTo(e, i - 1).IsTruncated
                         /\ requests[e][i].KeyMarker =
                               ResponseTo(e, i - 1).NextKeyMarker
                         /\ requests[e][i].VersionIdMarker =
                               ResponseTo(e, i - 1).NextVersionIdMarker
       /\ Ended(e) => /\ Len(requests[e]) >= 1
                      /\ ~ResponseTo(e, Len(requests[e])).IsTruncated

\* an enumeration of two pages has ended: its second request carried the
\* markers of a version with a version id
C16_Witness ==
    /\ Ended(1)
    /\ Len(requests[1]) = 2
    /\ requests[1][2].KeyMarker # None
    /\ requests[1][2].VersionIdMarker = 2

\* --------------------------------------------- list_versions, the batches
\* the listing requests that were answered, and those answered with no entry
Listed1 == {i \in CallsOf({"list_object_versions"}) : calls[i].exc = NoError}
EmptyPages == {i \in Listed1 : ListingObjs(calls[i].resp) = <<>>}

\* C17 - DeleteBatch invariant: every object list handed to delete_objects is
\* the versions followed by the delete markers of the listing response just
\* before it and has between 1 and batch_size entries; a response without
\* entries is followed by no delete_objects call, and when it is truncated
\* the enumeration goes on with the next listing request.
C17_DeleteBatch ==
    /\ \A i \in CallsOf({"delete_objects"}) :
          /\ 0 < Len(calls[i].arg) /\ Len(calls[i].arg) <= batch_size
          /\ i - 1 \in Listed1
          /\ calls[i - 1].arg.MaxKeys = batch_size
          /\ calls[i].arg = calls[i - 1].resp.Versions \o calls[i - 1].resp.DeleteMarkers
          /\ calls[i].pass = calls[i - 1].pass
    /\ \A i \in Listed1 \ EmptyPages :
          IF i < Len(calls) THEN calls[i + 1].op = "delete_objects"
          ELSE pc \in {"delete1", "delete2"}
    /\ \A i \in EmptyPages :
          /\ i < Len(calls) => calls[i + 1].op # "delete_objects"
          /\ calls[i].resp.IsTruncated =>
                IF i < Len(calls)
                THEN /\ calls[i + 1].op = "list_object_versions"
                     /\ calls[i + 1].pass = calls[i].pass
                ELSE pc \in {"list1", "list2"} /\ truncated

\* the service answered with an empty truncated page, the enumeration went on
\* and a later page was deleted in one batch of batch_size entries
C17_Witness ==
    \E i \in EmptyPages :
       /\ calls[i].resp.IsTruncated
       /\ \E j \in CallsOf({"delete_objects"}) :
             j > i /\ calls[j].pass = calls[i].pass /\ Len(calls[j].arg) = batch_size

\* -------------------------------------- nuke_bucket, nothing after pass 2
\* the listing requests that start an enumeration: they carry no markers
Enumerations ==
    {i \in CallsOf({"list_object_versions"}) :
        calls[i].arg.KeyMarker = None /\ calls[i].arg.VersionIdMarker = None}
\* the delete responses of pass 2 that report errors
Pass2Refusals ==
    {i \in Pass2Deletes : calls[i].exc = NoError /\ calls[i].resp.Errors # <<>>}

\* C18 - No escalation after pass 2: from the first call of pass 2 on,
\* nuke_bucket issues only listings and deletes of pass 2 and then
\* delete_bucket, its last call: no probe and no sleep. The errors of a
\* pass-2 delete response are not kept: after such a response comes the next
\* page of pass 2 or, after the last page, delete_bucket. One invocation
\* starts at most two enumerations, one per pass.
C18_NoEscalation ==
    /\ \A i \in Pass2Calls : \A j \in 1..Len(calls) :
          j > i => \/ calls[j].pass = 2 /\ calls[j].op \in {"list_object_versions",
                                                           "delete_objects"}
                   \/ calls[j].op = "delete_bucket"
    /\ \A i \in CallsOf({"delete_bucket"}) : i = Len(calls)
    /\ \A i, j \in Enumerations : calls[i].pass = calls[j].pass => i = j
    /\ Cardinality(Enumerations) <= 2
    /\ pc \in {"list2", "delete2", "delete_bucket"} => errors = <<>>
    /\ \A i \in Pass2Refusals :
          LET more == calls[i - 1].resp.IsTruncated
          IN IF i < Len(calls)
             THEN /\ calls[i + 1].op =
                        IF more THEN "list_object_versions" ELSE "delete_bucket"
                  /\ more => calls[i + 1].pass = 2
             ELSE pc = IF more THEN "list2" ELSE "delete_bucket"

\* the last delete of pass 2 reported an error, and the next call was
\* delete_bucket
C18_Witness ==
    \E i \in Pass2Refusals :
       /\ i + 1 = Len(calls)
       /\ calls[i + 1].op = "delete_bucket"
       /\ pc \in {"returned", "raised"}

\* ------------------------------------------------ nuke_bucket, the wait
Sleeps == CallsOf({"sleep"})
\* pass 2 has been entered: its first listing is due or was issued
InPass2 == pc = "list2" \/ Pass2Calls # {}

\* C19 - Expired hold and bounded wait: when the maximum retention date found
\* is not after the time nuke_bucket reads, nuke_bucket enters pass 2 without
\* sleeping and without raising the RuntimeError; an invocation sleeps at most
\* once, and a sleep lasts the remaining lock time d, 0 < d <= 60 seconds.
C19_BoundedWait ==
    /\ (Checked /\ Remaining <= 0) =>
          /\ Sleeps = {}
          /\ InPass2
          /\ ~FailedFast
    /\ Cardinality(Sleeps) <= 1
    /\ \A i \in Sleeps :
          /\ 0 < calls[i].arg /\ calls[i].arg <= MaxWaitSeconds
          /\ Checked /\ calls[i].arg = Remaining

\* the lock ran out between the probe and the clock read: no sleep, and the
\* version was deleted in pass 2
C19_Witness ==
    /\ Checked /\ Remaining <= 0
    /\ Sleeps = {}
    /\ \E i \in Pass2Deletes : calls[i].exc = NoError /\ calls[i].resp.Errors = <<>>
    /\ pc = "returned"

\* ------------------------------------------------------------ termination
\* the caller of list_versions has both its lists
ListsDone == ppc = "idle" /\ enum = 3 /\ pc = "idle"
\* nuke_bucket, called directly, returned or raised
NukeDone == ppc = "called" /\ pc \in {"returned", "raised"}
\* nuke_prefixed_buckets returned or raised
PrefixedDone == ppc \in {"returned", "raised"}
Terminated == ListsDone \/ NukeDone \/ PrefixedDone
\* one invocation of nuke_bucket: pass 1 is never resumed after pass 2, and
\* there is at most one sleep, of at most 60 seconds
TwoPassesOneSleep ==
    ppc = "called" =>
        /\ \A i \in Pass2Calls : \A j \in 1..Len(calls) :
              j > i => calls[j].pass # 1
        /\ Cardinality(Sleeps) <= 1
        /\ \A i \in Sleeps : calls[i].arg <= MaxWaitSeconds

\* C20 - Termination: with a service that answers every request and serves
\* a bucket in finitely many pages, every enumeration of list_versions ends,
\* every nuke_bucket invocation ends by returning or raising, after at most two
\* passes and one sleep of at most 60 seconds, and nuke_prefixed_buckets ends
\* by returning or raising.
C20_Termination == <>[]Terminated /\ []TwoPassesOneSleep

\* nuke_bucket ended after short pages, a sleep and a second pass
C20_Witness ==
    /\ NukeDone /\ pc = "returned"
    /\ shortLeft < MaxShortPages
    /\ Sleeps # {} /\ Pass2Deletes # {}

\* ------------------------------------ nuke_bucket, deleting while listing
\* the delete_objects calls of pass p, and what they were handed, in order
DeletesOf(p) == {i \in CallsOf({"delete_objects"}) : calls[i].pass = p}
Submitted(p) ==
    Flatten([i \in 1..Len(calls) |-> IF i \in DeletesOf(p) THEN calls[i].arg ELSE <<>>])
\* what the bucket held when pass p started: what it holds now and what the
\* deletes since then removed
Removed(p) ==
    UNION {calls[i].resp.Deleted :
              i \in {j \in CallsOf({"delete_objects"}) :
                        calls[j].exc = NoError /\ calls[j].pass >= p}}
HeldAtStart(p) == contents[bucket] \cup Removed(p)
\* pass p ran to its end
PassDone(p) ==
    IF p = 1 THEN Pass1Done
    ELSE Pass2Calls # {} /\ (pc = "delete_bucket" \/ CallsOf({"delete_bucket"}) # {})
NoDuplicates(seq) == \A i, j \in 1..Len(seq) : seq[i] = seq[j] => i = j

\* C21 - Exactly-once submission under interleaved deletion: within a pass a
\* listing request is only issued after the delete_objects call for the page
\* before it has returned; no entry is handed to delete_objects twice in one
\* pass, only entries the bucket held at the start of the pass are, and when
\* the pass has run to its end all of them were.
C21_ExactlyOnce ==
    /\ bucket # <<>> =>
       \A p \in {1, 2} :
          /\ NoDuplicates(Submitted(p))
          /\ Range(Submitted(p)) \subseteq HeldAtStart(p)
          /\ PassDone(p) => Range(Submitted(p)) = HeldAtStart(p)
    /\ \A j \in Listed1 \ EmptyPages : \A i \in CallsOf({"list_object_versions"}) :
          i > j /\ calls[i].pass = calls[j].pass =>
             /\ calls[j + 1].op = "delete_objects"
             /\ calls[j + 1].arg = ListingObjs(calls[j].resp)
             /\ calls[j + 1].exc = NoError
             /\ i > j + 1

\* pass 1 ran to its end in three pages, each deleted before the next was
\* listed, and every version was submitted
C21_Witness ==
    /\ bucket # <<>> /\ PassDone(1)
    /\ Cardinality(DeletesOf(1)) = 3
    /\ Range(Submitted(1)) = Refs

\* ------------------------------------------------- setup() and teardown()
\* the calls of nuke_prefixed_buckets that raised
FailedIdentities == {k \in 1..Len(ended) : ended[k].exc # NoError}

\* C22 - Identity ordering: setup() and teardown() start nuke_prefixed_buckets
\* for main, alt and tenant in this order, each at most once; an identity is
\* only started when every earlier one has returned without raising; when one
\* raises, it is the last one started and the fixture ends with its exception;
\* the fixture goes on past the three calls only when all three returned.
C22_IdentityOrder ==
    /\ Len(started) <= Len(Identities)
    /\ started = SubSeq(Identities, 1, Len(started))
    /\ Len(ended) <= Len(started) /\ Len(started) <= Len(ended) + 1
    /\ \A k \in 1..Len(ended) : ended[k].identity = started[k]
    /\ \A k \in 2..Len(started) : ended[k - 1].exc = NoError
    /\ \A k \in FailedIdentities :
          k = Len(started) /\ fpc = "raised"
    /\ fpc = "raised" => FailedIdentities # {}
    /\ fpc = "done" => Len(ended) = Len(Identities) /\ FailedIdentities = {}

\* teardown() reclaimed main's bucket, failed for alt, and never started
\* tenant, which still owns its bucket
C22_Witness ==
    /\ fixture = "teardown" /\ fpc = "raised"
    /\ started = <<"main", "alt">>
    /\ ended[1].exc = NoError /\ ended[2].exc # NoError
    /\ OwnBucket(1) \notin exists
    /\ owned[3] # <<>> /\ OwnBucket(3) \in exists

\* -------------------------------------------------- get_new_bucket_name
\* the buckets that exist under a generated name
Generated == {name \in Range(srvBuckets) : name \in Range(names)}

\* C23 - Generated bucket names are covered by cleanup: the names returned by
\* get_new_bucket_name are pairwise distinct, the k-th being the prefix
\* followed by the decimal digits of k, so each contains the prefix; and
\* get_buckets_list for the prefix selects every bucket that exists under a
\* generated name.
C23_NamesCovered ==
    /\ bucket_counter = Len(names) + 1
    /\ \A i, j \in 1..Len(names) : names[i] = names[j] => i = j
    /\ \A i \in 1..Len(names) :
          /\ IsSubstring(prefix, names[i])
          /\ SubSeq(names[i], 1, Len(prefix)) = prefix
          /\ Len(names[i]) = Len(prefix) + (IF i < 10 THEN 1 ELSE 2)
    /\ fpc = "listed" =>
          /\ \A name \in Generated : name \in Range(buckets)
          /\ \A i \in 1..Len(buckets) : IsSubstring(prefix, buckets[i])

\* eleven names were generated, buckets were created under the first and the
\* eleventh, and the listing for the prefix selected both
C23_Witness ==
    /\ fpc = "listed"
    /\ Len(names) = 11
    /\ names[1] \in Range(buckets) /\ names[11] \in Range(buckets)
    /\ BucketC \notin Range(buckets)

\* -------------------------------------------------- choose_bucket_prefix
\* the template filled with the first k characters of the filler
Filled(k) == Format(template, SubSeq(filler, 1, k))
\* the lengths of a leading part whose result keeps to the limit; the loop
\* never tries the empty part
Fitting == {k \in 1..Len(filler) : Len(Filled(k)) <= max_len}

C24_WitnessRaised ==
    /\ cpc = "raised"
    /\ Len(Filled(0)) > max_len

====
